---- MODULE Spec2Model ----
(***************************************************************************)
(* Compressed point encoding of the bn256 groups G1 / G2                   *)
(* (src/src/bn256/ec.rs).                                                  *)
(*                                                                         *)
(* The byte-level code of from_bytes / to_bytes is modelled as written:    *)
(* 32- and 64-byte arrays of 8-bit bytes, the sign flag in bit 7 of the    *)
(* final byte, the scratch copy, the CtOption plumbing.                    *)
(*                                                                         *)
(* The field types Fq and Fq2 live outside ec.rs.  They are modelled from  *)
(* their contract (canonical fixed-width encoding that rejects values      *)
(* >= the modulus, sqrt that fails exactly on non-residues and otherwise   *)
(* returns one of the two roots) over a prime small enough to enumerate.   *)
(* The prime is chosen so that the facts about the 254-bit field that the  *)
(* encoding depends on carry over:                                         *)
(*   - the modulus is odd, = 3 mod 4 (Fq2 = Fq[u]/(u^2+1)), and fits in    *)
(*     one bit less than its encoding (7 bits of byte 0 here, 254 bits of  *)
(*     32 bytes there), so bit 7 of the final byte is spare;               *)
(*   - b = 3 is a non-residue in Fq, and the twist constant 3/(9+u) is a   *)
(*     non-square in Fq2 (no curve point has x = 0);                       *)
(*   - no curve point has y = 0 (both group orders are odd);               *)
(*   - E(Fq): y^2 = x^3 + 3 has prime order (97 here).                     *)
(***************************************************************************)
EXTENDS Integers, Sequences, FiniteSets, TLC

VARIABLES pc, group, point, out, arg, bytes, tmp, ret

vars == <<pc, group, point, out, arg, bytes, tmp, ret>>

(***************************************************************************)
(* Bytes and byte arrays.  Rust indexes from 0, TLA+ sequences from 1.     *)
(***************************************************************************)
At(a, i) == a[i + 1]

Put(a, i, v) == [a EXCEPT ![i + 1] = v]

Zeros(n) == [i \in 1..n |-> 0]

\* v >> 7 on a u8
Shr7(v) == v \div 128

\* v & 0b0111_1111 on a u8
And7F(v) == v % 128

\* v & 1 on a u8
And1(v) == v % 2

\* (v << 7) on a u8: the bits shifted past bit 7 are lost
Shl7(v) == (v * 128) % 256

\* a | s on a u8, s being 0 or a single bit
BitOr(a, s) == IF s = 0 \/ (a \div s) % 2 = 1 THEN a ELSE a + s

(***************************************************************************)
(* subtle::CtOption and subtle::Choice                                     *)
(***************************************************************************)
CtNone == [is_some |-> FALSE]

CtSome(v) == [is_some |-> TRUE, value |-> v]

(***************************************************************************)
(* The base field Fq.                                                      *)
(***************************************************************************)
MODULUS == 79

FQ_SIZE == 32

Fq == 0..(MODULUS - 1)

FqAdd(a, b) == (a + b) % MODULUS

FqNeg(a) == (MODULUS - a) % MODULUS

FqMul(a, b) == (a * b) % MODULUS

FqSquare(a) == FqMul(a, a)

RECURSIVE LittleEndian(_, _)
LittleEndian(v, n) ==
    IF n = 0 THEN <<>> ELSE <<v % 256>> \o LittleEndian(v \div 256, n - 1)

\* (f @@ <<>> is f, stored as an explicit table)
FqBytesTable == [a \in Fq |-> LittleEndian(a, FQ_SIZE)] @@ <<>>

\* Fq::to_bytes: the canonical value, lowest-order byte first
Fq_to_bytes(a) == FqBytesTable[a]

ModulusBytes == LittleEndian(MODULUS, FQ_SIZE)

\* a < b as little-endian integers of n bytes, decided from the top byte down
RECURSIVE BytesLess(_, _, _)
BytesLess(a, b, n) ==
    IF n = 0 THEN FALSE
    ELSE IF a[n] /= b[n] THEN a[n] < b[n]
    ELSE BytesLess(a, b, n - 1)

\* the little-endian integer held by a from position n on, reduced; read only
\* when a is canonical, and then it is the value itself
RECURSIVE BytesValue(_, _)
BytesValue(a, n) ==
    IF n > Len(a) THEN 0
    ELSE (a[n] + 256 * BytesValue(a, n + 1)) % MODULUS

\* Fq::from_bytes: fails unless the bytes are the canonical encoding of a value < MODULUS
Fq_from_bytes(a) ==
    IF BytesLess(a, ModulusBytes, FQ_SIZE) THEN CtSome(BytesValue(a, 1)) ELSE CtNone

FqRoots(v) == {y \in Fq : FqSquare(y) = v}

FqRootTable == [v \in Fq |-> FqRoots(v)] @@ <<>>

Min(S) == CHOOSE m \in S : \A n \in S : m <= n

Max(S) == CHOOSE m \in S : \A n \in S : n <= m

\* Fq::sqrt: none for a non-residue, else one of the two roots; which one is
\* the field's convention, left open here (pick).
Fq_sqrt(v, pick) ==
    IF FqRootTable[v] = {} THEN CtNone
    ELSE CtSome(IF pick = 0 THEN Min(FqRootTable[v]) ELSE Max(FqRootTable[v]))

(***************************************************************************)
(* G1, G1Affine                                                            *)
(***************************************************************************)
G1_SIZE == 32

G1_curve_constant_b == 3

G1Affine_curve_constant_b == 3

G1_generator == [x |-> 1, y |-> 2, z |-> 1]

G1Affine_generator == [x |-> 1, y |-> 2, infinity |-> FALSE]

G1Affine_identity == [x |-> 0, y |-> 0, infinity |-> TRUE]

G1Affine_is_identity(p) == p.infinity

G1Compressed_default == Zeros(G1_SIZE)

\* let ysign = Choice::from(tmp[32 - 1] >> 7)
G1Affine_from_bytes_ysign(b) == Shr7(At(b, 32 - 1))

\* faulty variant: the sign bit is not cleared before the field decoder runs
G1Affine_from_bytes_tmp_not_cleared(b) == b

\* let mut tmp = *bytes; tmp[32 - 1] &= 0b0111_1111
G1Affine_from_bytes_tmp(b) == Put(b, 32 - 1, And7F(At(b, 32 - 1)))

\* faulty variant: the negation of ysign is missing
G1Affine_from_bytes_is_identity_sign_set(x, ysign) == x = 0 /\ ysign = 1

\* x.ct_is_zero() & (!ysign)
G1Affine_from_bytes_is_identity(x, ysign) == x = 0 /\ ysign = 0

\* faulty variant: x3 is x.square(), the multiplication by x is missing
G1Affine_from_bytes_rhs_square(x) == FqAdd(FqSquare(x), G1_curve_constant_b)

\* x3 + G1::curve_constant_b(), x3 = x.square() * x
G1Affine_from_bytes_rhs(x) == FqAdd(FqMul(FqSquare(x), x), G1_curve_constant_b)

\* faulty variant: the square root is returned as it comes
G1Affine_from_bytes_y_as_is(y, ysign) == y

\* sign = y.to_bytes()[0] & 1; Fq::conditional_select(&y, &-y, ysign ^ sign)
G1Affine_from_bytes_y(y, ysign) ==
    LET sign == And1(At(Fq_to_bytes(y), 0))
    IN  IF ysign /= sign THEN FqNeg(y) ELSE y

\* the result of G1Affine::from_bytes, with the caller's array and the scratch copy
G1Affine_from_bytes(b, pick) ==
    LET ysign == G1Affine_from_bytes_ysign(b)
        t     == G1Affine_from_bytes_tmp(b)
        xo    == Fq_from_bytes(t)
        x     == xo.value
        yo    == Fq_sqrt(G1Affine_from_bytes_rhs(x), pick)
        y     == G1Affine_from_bytes_y(yo.value, ysign)
    IN  [bytes |-> b,
         tmp |-> t,
         ret |-> IF ~xo.is_some THEN CtNone
                 ELSE IF G1Affine_from_bytes_is_identity(x, ysign)
                      THEN CtSome(G1Affine_identity)
                 ELSE IF ~yo.is_some THEN CtNone
                 ELSE CtSome([x |-> x, y |-> y, infinity |-> FALSE])]

\* faulty variant: the shift is missing, the sign lands in bit 0
G1Affine_to_bytes_sign_unshifted(y) == And1(At(Fq_to_bytes(y), 0))

\* let sign = (y.to_bytes()[0] & 1) << 7
G1Affine_to_bytes_sign(y) == Shl7(And1(At(Fq_to_bytes(y), 0)))

G1Affine_to_bytes(self) ==
    IF G1Affine_is_identity(self) THEN G1Compressed_default
    ELSE LET sign   == G1Affine_to_bytes_sign(self.y)
             xbytes == Fq_to_bytes(self.x)
         IN  Put(xbytes, 32 - 1, BitOr(At(xbytes, 32 - 1), sign))

G1OnCurve(p) ==
    /\ ~p.infinity
    /\ FqSquare(p.y) = FqAdd(FqMul(FqSquare(p.x), p.x), G1Affine_curve_constant_b)

G1Points ==
    {G1Affine_identity} \cup
    {p \in [x : Fq, y : Fq, infinity : {FALSE}] : G1OnCurve(p)}

(***************************************************************************)
(* Jacobian G1 and its conversions (generated by new_curve_impl!)          *)
(***************************************************************************)
FqInvert(a) == CHOOSE i \in Fq : FqMul(a, i) = 1

\* G1Affine::from(&G1): (x / z^2, y / z^3), the identity when z = 0
G1_to_affine(p) ==
    IF p.z = 0 THEN G1Affine_identity
    ELSE LET zinv  == FqInvert(p.z)
             zinv2 == FqSquare(zinv)
         IN  [x |-> FqMul(p.x, zinv2),
              y |-> FqMul(p.y, FqMul(zinv2, zinv)),
              infinity |-> FALSE]

\* G1::from(G1Affine): (x, y, 1), z = 0 for the identity
G1_from_affine(p) ==
    IF p.infinity THEN [x |-> 0, y |-> 0, z |-> 0]
    ELSE [x |-> p.x, y |-> p.y, z |-> 1]

G1_from_bytes(b, pick) ==
    LET r == G1Affine_from_bytes(b, pick)
    IN  [bytes |-> r.bytes,
         tmp |-> r.tmp,
         \* .map(Self::from)
         ret |-> IF r.ret.is_some THEN CtSome(G1_from_affine(r.ret.value)) ELSE CtNone]

G1_to_bytes(self) == G1Affine_to_bytes(G1_to_affine(self))

\* Jacobian triples (x z^2, y z^3, z) of a point, z up to MaxZ
MaxZ == 2

G1Jacobians(p) ==
    IF p.infinity THEN {[x |-> 0, y |-> 0, z |-> 0], [x |-> 1, y |-> 1, z |-> 0]}
    ELSE {[x |-> FqMul(p.x, FqSquare(z)), y |-> FqMul(p.y, FqMul(FqSquare(z), z)), z |-> z] :
             z \in 1..MaxZ}

(***************************************************************************)
(* The extension field Fq2 = Fq[u] / (u^2 + 1)                             *)
(***************************************************************************)
Fq2 == [c0 : Fq, c1 : Fq]

Fq2Of(a, b) == [c0 |-> a, c1 |-> b]

Fq2_zero == Fq2Of(0, 0)

Fq2Add(a, b) == Fq2Of(FqAdd(a.c0, b.c0), FqAdd(a.c1, b.c1))

Fq2Neg(a) == Fq2Of(FqNeg(a.c0), FqNeg(a.c1))

Fq2Mul(a, b) ==
    Fq2Of(FqAdd(FqMul(a.c0, b.c0), FqNeg(FqMul(a.c1, b.c1))),
          FqAdd(FqMul(a.c0, b.c1), FqMul(a.c1, b.c0)))

Fq2Square(a) == Fq2Mul(a, a)

\* Fq2::to_bytes: the c0 limb, then the c1 limb
Fq2_to_bytes(a) == Fq_to_bytes(a.c0) \o Fq_to_bytes(a.c1)

\* Fq2::from_bytes: fails unless both limbs are canonical
Fq2_from_bytes(a) ==
    LET c0 == Fq_from_bytes(SubSeq(a, 1, FQ_SIZE))
        c1 == Fq_from_bytes(SubSeq(a, FQ_SIZE + 1, 2 * FQ_SIZE))
    IN  IF c0.is_some /\ c1.is_some THEN CtSome(Fq2Of(c0.value, c1.value)) ELSE CtNone

\* every y with y^2 = v: such a y has y.c1^2 = y.c0^2 - v.c0, which narrows the search
Fq2Roots(v) ==
    {y \in UNION {{Fq2Of(y0, y1) : y1 \in FqRootTable[FqAdd(FqSquare(y0), FqNeg(v.c0))]} :
                     y0 \in Fq} :
        Fq2Square(y) = v}

Fq2RootTable == [v \in Fq2 |-> Fq2Roots(v)] @@ <<>>

\* Fq2::sqrt: none for a non-square, else one of the two roots (pick)
Fq2_sqrt(v, pick) ==
    IF Fq2RootTable[v] = {} THEN CtNone
    ELSE LET r == CHOOSE y \in Fq2RootTable[v] : TRUE
         IN  CtSome(IF pick = 0 THEN r ELSE Fq2Neg(r))

(***************************************************************************)
(* G2, G2Affine                                                            *)
(***************************************************************************)
G2_SIZE == 64

\* the twist constant 3 / (9 + u)
G2_curve_constant_b ==
    CHOOSE b \in Fq2 : Fq2Mul(b, Fq2Of(9, 1)) = Fq2Of(3, 0)

G2Affine_curve_constant_b == G2_curve_constant_b

G2Affine_identity == [x |-> Fq2_zero, y |-> Fq2_zero, infinity |-> TRUE]

G2Affine_is_identity(p) == p.infinity

G2Compressed_default == Zeros(G2_SIZE)

\* let ysign = Choice::from(tmp[64 - 1] >> 7)
G2Affine_from_bytes_ysign(b) == Shr7(At(b, 64 - 1))

\* let mut tmp = *bytes; tmp[64 - 1] &= 0b0111_1111
G2Affine_from_bytes_tmp(b) == Put(b, 64 - 1, And7F(At(b, 64 - 1)))

\* faulty variant: the sign bit is not looked at
G2Affine_from_bytes_is_identity_any_sign(x, ysign) == x = Fq2_zero

\* x.ct_is_zero() & (!ysign)
G2Affine_from_bytes_is_identity(x, ysign) == x = Fq2_zero /\ ysign = 0

\* faulty variant: the curve constant is not added
G2Affine_from_bytes_rhs_no_b(x) == Fq2Mul(Fq2Square(x), x)

\* x3 + G2::curve_constant_b(), x3 = x.square() * x
G2Affine_from_bytes_rhs(x) == Fq2Add(Fq2Mul(Fq2Square(x), x), G2_curve_constant_b)

\* sign = y.to_bytes()[0] & 1; Fq2::conditional_select(&y, &-y, ysign ^ sign)
G2Affine_from_bytes_y(y, ysign) ==
    LET sign == And1(At(Fq2_to_bytes(y), 0))
    IN  IF ysign /= sign THEN Fq2Neg(y) ELSE y

\* the result of G2Affine::from_bytes, with the caller's array and the scratch copy
G2Affine_from_bytes(b, pick) ==
    LET ysign == G2Affine_from_bytes_ysign(b)
        t     == G2Affine_from_bytes_tmp(b)
        xo    == Fq2_from_bytes(t)
        x     == xo.value
        yo    == Fq2_sqrt(G2Affine_from_bytes_rhs(x), pick)
        y     == G2Affine_from_bytes_y(yo.value, ysign)
    IN  [bytes |-> b,
         tmp |-> t,
         ret |-> IF ~xo.is_some THEN CtNone
                 ELSE IF G2Affine_from_bytes_is_identity(x, ysign)
                      THEN CtSome(G2Affine_identity)
                 ELSE IF ~yo.is_some THEN CtNone
                 ELSE CtSome([x |-> x, y |-> y, infinity |-> FALSE])]

\* let sign = (y.to_bytes()[0] & 1) << 7
G2Affine_to_bytes_sign(y) == Shl7(And1(At(Fq2_to_bytes(y), 0)))

G2Affine_to_bytes(self) ==
    IF G2Affine_is_identity(self) THEN G2Compressed_default
    ELSE LET sign   == G2Affine_to_bytes_sign(self.y)
             xbytes == Fq2_to_bytes(self.x)
         IN  Put(xbytes, 64 - 1, BitOr(At(xbytes, 64 - 1), sign))

G2OnCurve(p) ==
    /\ ~p.infinity
    /\ Fq2Square(p.y) = Fq2Add(Fq2Mul(Fq2Square(p.x), p.x), G2Affine_curve_constant_b)

\* every valid affine point: for each x, the y with y^2 = x^3 + b
G2Points ==
    {G2Affine_identity} \cup
    UNION {{[x |-> x, y |-> y, infinity |-> FALSE] :
               y \in Fq2RootTable[Fq2Add(Fq2Mul(Fq2Square(x), x), G2Affine_curve_constant_b)]} :
           x \in Fq2}

(***************************************************************************)
(* Inputs                                                                  *)
(***************************************************************************)
\* low-order bytes run over 0..MaxLow: past the modulus, so that non-canonical
\* encodings are among the inputs
MaxLow == 81

\* values of the final byte, and of the top byte of a limb
HiBytes == {0, 1, 127, 128, 129, 255}

EdgeBytes == {0, 1, MODULUS - 1, MODULUS, 255}

G1Bytes(lo, mid, hi) == Put(Put(Put(Zeros(G1_SIZE), 0, lo), 1, mid), 32 - 1, hi)

G1Inputs ==
    {G1Bytes(lo, 0, hi) : lo \in 0..MaxLow, hi \in {0, 128}}
    \cup {G1Bytes(lo, mid, hi) : lo \in EdgeBytes, mid \in {0, 1}, hi \in HiBytes}

G2Bytes(lo0, hi0, lo1, hi1) ==
    Put(Put(Put(Put(Zeros(G2_SIZE), 0, lo0), 32 - 1, hi0), 32, lo1), 64 - 1, hi1)

G2Inputs ==
    {G2Bytes(lo0, 0, lo1, hi1) : lo0 \in 0..MaxLow, lo1 \in 0..MaxLow, hi1 \in {0, 128}}
    \cup {G2Bytes(lo0, hi0, lo1, hi1) :
             lo0 \in EdgeBytes, hi0 \in HiBytes, lo1 \in EdgeBytes, hi1 \in HiBytes}

(***************************************************************************)
(* State machine: one call of an encoding operation per step.  The first   *)
(* call takes its argument from the inputs; a second call takes the first  *)
(* call's result (decode what was encoded, encode what was decoded).       *)
(***************************************************************************)
Init ==
    /\ pc = "idle"
    /\ group = "none"
    /\ point = <<>>
    /\ out = <<>>
    /\ arg = <<>>
    /\ bytes = <<>>
    /\ tmp = <<>>
    /\ ret = CtNone

\* self.to_bytes() on an affine point
G1AffineToBytes ==
    /\ \/ /\ pc = "idle"
          /\ \E p \in G1Points : point' = p
          /\ pc' = "encoded"
       \/ /\ pc = "decoded" /\ group = "G1Affine" /\ ret.is_some
          /\ point' = ret.value
          /\ pc' = "reencoded"
    /\ out' = G1Affine_to_bytes(point')
    /\ group' = "G1Affine"
    /\ UNCHANGED <<arg, bytes, tmp, ret>>

\* G1Affine::from_bytes(&bytes)
G1AffineFromBytes ==
    /\ \/ /\ pc = "idle"
          /\ \E b \in G1Inputs : arg' = b
          /\ pc' = "decoded"
       \/ /\ pc = "encoded" /\ group = "G1Affine"
          /\ arg' = out
          /\ pc' = "roundtrip"
    /\ \E pick \in {0, 1} : \E r \in {G1Affine_from_bytes(arg', pick)} :
        /\ bytes' = r.bytes
        /\ tmp' = r.tmp
        /\ ret' = r.ret
    /\ group' = "G1Affine"
    /\ UNCHANGED <<point, out>>

\* self.to_bytes() on a Jacobian point
G1ToBytes ==
    /\ \/ /\ pc = "idle"
          /\ \E p \in G1Points : \E j \in G1Jacobians(p) : point' = j
          /\ pc' = "encoded"
       \/ /\ pc = "decoded" /\ group = "G1" /\ ret.is_some
          /\ point' = ret.value
          /\ pc' = "reencoded"
    /\ out' = G1_to_bytes(point')
    /\ group' = "G1"
    /\ UNCHANGED <<arg, bytes, tmp, ret>>

\* G1::from_bytes(&bytes)
G1FromBytes ==
    /\ \/ /\ pc = "idle"
          /\ \E b \in G1Inputs : arg' = b
          /\ pc' = "decoded"
       \/ /\ pc = "encoded" /\ group = "G1"
          /\ arg' = out
          /\ pc' = "roundtrip"
    /\ \E pick \in {0, 1} : \E r \in {G1_from_bytes(arg', pick)} :
        /\ bytes' = r.bytes
        /\ tmp' = r.tmp
        /\ ret' = r.ret
    /\ group' = "G1"
    /\ UNCHANGED <<point, out>>

G2AffineToBytes ==
    /\ \/ /\ pc = "idle"
          /\ \E p \in G2Points : point' = p
          /\ pc' = "encoded"
       \/ /\ pc = "decoded" /\ group = "G2Affine" /\ ret.is_some
          /\ point' = ret.value
          /\ pc' = "reencoded"
    /\ out' = G2Affine_to_bytes(point')
    /\ group' = "G2Affine"
    /\ UNCHANGED <<arg, bytes, tmp, ret>>

G2AffineFromBytes ==
    /\ \/ /\ pc = "idle"
          /\ \E b \in G2Inputs : arg' = b
          /\ pc' = "decoded"
       \/ /\ pc = "encoded" /\ group = "G2Affine"
          /\ arg' = out
          /\ pc' = "roundtrip"
    /\ \E pick \in {0, 1} : \E r \in {G2Affine_from_bytes(arg', pick)} :
        /\ bytes' = r.bytes
        /\ tmp' = r.tmp
        /\ ret' = r.ret
    /\ group' = "G2Affine"
    /\ UNCHANGED <<point, out>>

Next ==
    \/ G1AffineToBytes
    \/ G1AffineFromBytes
    \/ G1ToBytes
    \/ G1FromBytes
    \/ G2AffineToBytes
    \/ G2AffineFromBytes

Spec == Init /\ [][Next]_vars

(***************************************************************************)
(* Vocabulary of the properties                                            *)
(***************************************************************************)
AffineGroups == {"G1Affine", "G2Affine"}

\* from_bytes of an affine group has returned: arg was its input, ret its result
FromBytesDone == pc \in {"decoded", "roundtrip", "reencoded"} /\ group \in AffineGroups

\* to_bytes of an affine group has returned: point was its operand, out its result
ToBytesDone == pc \in {"encoded", "roundtrip", "reencoded"} /\ group \in AffineGroups

Width == IF group = "G2Affine" THEN G2_SIZE ELSE G1_SIZE

\* bit 7 of the final byte
TopBit(a) == a[Len(a)] \div 128

\* the array with bit 7 of the final byte cleared
ClearTop(a) == [a EXCEPT ![Len(a)] = a[Len(a)] % 128]

CanonicalFqBytes == {Fq_to_bytes(v) : v \in Fq}

\* the bytes are the encoding of a field element (every limb is below the modulus)
IsCanonical(a) ==
    IF group = "G2Affine"
    THEN /\ SubSeq(a, 1, FQ_SIZE) \in CanonicalFqBytes
         /\ SubSeq(a, FQ_SIZE + 1, 2 * FQ_SIZE) \in CanonicalFqBytes
    ELSE a \in CanonicalFqBytes

FqOfBytes(a) == CHOOSE v \in Fq : Fq_to_bytes(v) = a

\* the field element a canonical array encodes
ElementOf(a) ==
    IF group = "G2Affine"
    THEN Fq2Of(FqOfBytes(SubSeq(a, 1, FQ_SIZE)), FqOfBytes(SubSeq(a, FQ_SIZE + 1, 2 * FQ_SIZE)))
    ELSE FqOfBytes(a)

EncodingOf(v) == IF group = "G2Affine" THEN Fq2_to_bytes(v) ELSE Fq_to_bytes(v)

\* the least-significant bit of byte 0 of y's canonical encoding
SignOf(y) == EncodingOf(y)[1] % 2

IsZero(x) == IF group = "G2Affine" THEN x = Fq2_zero ELSE x = 0

\* x^3 + b has a square root in the field
HasRoot(x) ==
    IF group = "G2Affine"
    THEN Fq2RootTable[Fq2Add(Fq2Mul(Fq2Square(x), x), G2Affine_curve_constant_b)] /= {}
    ELSE FqRoots(FqAdd(FqMul(FqSquare(x), x), G1Affine_curve_constant_b)) /= {}

OnCurve(p) == IF group = "G2Affine" THEN G2OnCurve(p) ELSE G1OnCurve(p)

Identity == IF group = "G2Affine" THEN G2Affine_identity ELSE G1Affine_identity

(***************************************************************************)
(* C1  Round trip: for every valid affine point P of either group,         *)
(* from_bytes(to_bytes(P)) succeeds and returns exactly P, also when y     *)
(* and -y have the same sign bit.                                          *)
(***************************************************************************)
C1_RoundTrip ==
    (pc = "roundtrip" /\ group \in AffineGroups) => ret = CtSome(point)

(***************************************************************************)
(* C2  Decode soundness: from_bytes returns none, or the identity, or a    *)
(* point with infinity = false that satisfies y^2 = x^3 + b and whose x    *)
(* is the field element the input encodes once bit 7 of its final byte is  *)
(* cleared.                                                                *)
(***************************************************************************)
C2_DecodeSound ==
    FromBytesDone =>
        \/ ret = CtNone
        \/ ret = CtSome(Identity)
        \/ /\ ret.is_some
           /\ ~ret.value.infinity
           /\ OnCurve(ret.value)
           /\ EncodingOf(ret.value.x) = ClearTop(arg)

C2_Witness ==
    /\ FromBytesDone /\ group = "G2Affine" /\ pc = "decoded"
    /\ ret.is_some /\ ~ret.value.infinity /\ TopBit(arg) = 1

(***************************************************************************)
(* C3  Identity encoding: to_bytes(identity) is all zero bytes of the      *)
(* group's width, to_bytes always yields an array of that width, and       *)
(* from_bytes(all zero bytes) is the identity.                             *)
(***************************************************************************)
C3_IdentityEncoding ==
    /\ ToBytesDone =>
          /\ Len(out) = Width
          /\ \A i \in 1..Width : out[i] \in 0..255
          /\ point.infinity => out = Zeros(Width)
    /\ (FromBytesDone /\ arg = Zeros(Width)) => ret = CtSome(Identity)

C3_Witness ==
    /\ pc = "roundtrip" /\ group = "G2Affine"
    /\ point = G2Affine_identity /\ arg = Zeros(G2_SIZE) /\ ret.is_some

(***************************************************************************)
(* C4  Non-canonical rejection: whatever the sign bit, from_bytes fails    *)
(* when the input with bit 7 of the final byte cleared is not a canonical  *)
(* field encoding; the sign bit is cleared in a scratch copy, so it never  *)
(* makes the canonicity check fail, and the caller's array is unchanged.   *)
(***************************************************************************)
C4_NonCanonicalRejected ==
    FromBytesDone =>
        /\ bytes = arg
        /\ tmp = ClearTop(arg)
        /\ ~IsCanonical(ClearTop(arg)) => ret = CtNone
        /\ (IsCanonical(ClearTop(arg)) /\ HasRoot(ElementOf(ClearTop(arg)))) => ret.is_some

C4_Witness ==
    /\ FromBytesDone /\ group = "G2Affine"
    /\ TopBit(arg) = 1 /\ ~IsCanonical(ClearTop(arg))
    /\ IsCanonical(SubSeq(arg, 1, FQ_SIZE) \o Zeros(FQ_SIZE))

(***************************************************************************)
(* C5  Off-curve rejection: for a canonical x that is not the identity     *)
(* encoding, from_bytes fails (as a value) when x^3 + b has no square      *)
(* root; and it succeeds whenever x is canonical and x^3 + b has one.      *)
(***************************************************************************)
C5_OffCurveRejected ==
    (FromBytesDone /\ IsCanonical(ClearTop(arg))) =>
        LET x == ElementOf(ClearTop(arg)) IN
        /\ (~(IsZero(x) /\ TopBit(arg) = 0) /\ ~HasRoot(x)) => ret = CtNone
        /\ HasRoot(x) => ret.is_some

C5_Witness ==
    /\ FromBytesDone /\ group = "G1Affine" /\ IsCanonical(ClearTop(arg))
    /\ ~IsZero(ElementOf(ClearTop(arg))) /\ ~HasRoot(ElementOf(ClearTop(arg)))
    /\ ret = CtNone

(***************************************************************************)
(* C6  Malformed identity encoding: an input whose x is zero and whose     *)
(* sign bit is set is not decoded to the identity; from_bytes fails on it. *)
(* Only zero x with the sign bit clear yields the identity.                *)
(***************************************************************************)
C6_MalformedIdentityRejected ==
    FromBytesDone =>
        /\ (ClearTop(arg) = Zeros(Width) /\ TopBit(arg) = 1) => ret = CtNone
        /\ (ret.is_some /\ ret.value.infinity) => arg = Zeros(Width)

C6_Witness ==
    /\ FromBytesDone /\ group = "G2Affine"
    /\ ClearTop(arg) = Zeros(Width) /\ TopBit(arg) = 1 /\ ret = CtNone

GeneratorBytes == [i \in 1..G1_SIZE |-> IF i = 1 THEN 1 ELSE 0]

C8_Generator ==
    /\ G1Affine_generator = [x |-> 1, y |-> 2, infinity |-> FALSE]
    /\ G1_generator = [x |-> 1, y |-> 2, z |-> 1]
    /\ G1_to_affine(G1_generator) = G1Affine_generator
    /\ G1_curve_constant_b = 3 /\ G1Affine_curve_constant_b = 3
    /\ FqSquare(G1Affine_generator.y)
         = FqAdd(FqMul(FqSquare(G1Affine_generator.x), G1Affine_generator.x),
                 G1Affine_curve_constant_b)
    /\ (pc \in {"encoded", "roundtrip"} /\ group = "G1Affine" /\ point = G1Affine_generator)
          => out = GeneratorBytes
    /\ (pc \in {"encoded", "roundtrip"} /\ group = "G1" /\ point = G1_generator)
          => out = GeneratorBytes
    /\ (pc \in {"decoded", "roundtrip"} /\ group = "G1Affine" /\ arg = GeneratorBytes)
          => ret = CtSome(G1Affine_generator)

C8_Witness ==
    /\ pc = "roundtrip" /\ group = "G1Affine"
    /\ point = G1Affine_generator /\ arg = GeneratorBytes /\ ret.is_some

(***************************************************************************)
(* C9  Sign resolution on decode: whenever from_bytes succeeds with a      *)
(* non-identity point (x, y), the sign of y (least-significant bit of byte *)
(* 0 of its encoding) equals bit 7 of the input's final byte.              *)
(***************************************************************************)
C9_SignResolved ==
    (FromBytesDone /\ ret.is_some /\ ~ret.value.infinity) =>
        SignOf(ret.value.y) = TopBit(arg)

(***************************************************************************)
(* C10  Canonical encoding: whenever from_bytes succeeds on B with point   *)
(* P, to_bytes(P) = B, so no two byte arrays decode to the same point.     *)
(***************************************************************************)
C10_CanonicalEncoding ==
    (pc = "reencoded" /\ group \in AffineGroups) => out = arg

====
